---- MODULE Spec2Model ----
(***************************************************************************)
(* The windowed selection engine of television: crates/television/picker.rs *)
(* A Picker owns two cursors (the absolute selection `state` and the        *)
(* relative window index `relative_state`, both Option<usize>), the         *)
(* `inverted` flag and the text-entry sub-state `input`.                    *)
(*                                                                          *)
(* usize is modelled as the integers 0 .. UsizeMax with UsizeMax = 2^W - 1. *)
(* Arithmetic that Rust checks in builds with overflow checks (the debug    *)
(* profile) and wraps in builds without them (the release profile) is       *)
(* modelled for both profiles: `overflow_checks` is fixed by Init.          *)
(* A panic ends the run: `panicked` becomes TRUE and no operation follows.  *)
(*                                                                          *)
(* Four specifications: Spec (any calls on a Picker), SpecSession (stepping  *)
(* through one list with fixed total_items and height), SpecDerive           *)
(* (television-derive: derive(ToCliChannel)) and SpecHelp (ui/help.rs:       *)
(* build_help_table).                                                        *)
(***************************************************************************)
EXTENDS Integers, Sequences, FiniteSets, TLC

VARIABLES picker, panicked, overflow_checks, call

(* television-derive/src/lib.rs, derive(ToCliChannel): `ast` is the item the *)
(* derive is applied to, `gen` what the macro expands to (or its panic) and  *)
(* `observed` the last call made on the generated CliTvChannel.              *)
VARIABLES ast, gen, observed

(* A navigation session: the caller steps through one list of             *)
(* `session.total_items` items in a viewport of `session.height` rows;       *)
(* `recent` keeps the latest calls of the session, oldest first.             *)
VARIABLES session, recent

(* crates/television/ui/help.rs: `television` holds the fields of Television *)
(* that build_help_table reads (mode, config.keybindings), `help` the value  *)
(* the last build_help_table call returned.                                  *)
VARIABLES television, help

picker_vars == <<picker, panicked, overflow_checks, call>>
derive_vars == <<ast, gen, observed>>
session_vars == <<session, recent>>
help_vars == <<television, help>>
vars == <<picker, panicked, overflow_checks, call, ast, gen, observed,
          session, recent, television, help>>

(***************************** bounds **************************************)
\* width of the modelled usize, in bits
W == 2
\* largest total_items handed to select_next / select_prev
MaxItems == 3
\* largest height handed to select_next / select_prev
MaxHeight == 3
\* largest number of variants of the enum handed to derive(ToCliChannel)
MaxVariants == 3

UsizeMax == 2^W - 1
Usize == 0 .. UsizeMax

(***************************** Option<usize> *******************************)
None == <<>>
Some(i) == <<i>>
OptionUsize == {None} \cup {Some(i) : i \in Usize}
is_some(o) == o # None
unwrap(o) == o[1]
unwrap_or(o, d) == IF o = None THEN d ELSE o[1]

(***************************** usize arithmetic ****************************)
Min(a, b) == IF a <= b THEN a ELSE b
\* the value a wrapping operation keeps of the mathematical result x
Wrap(x) == x % (UsizeMax + 1)
\* whether the mathematical result x is outside usize
Overflows(x) == x < 0 \/ x > UsizeMax
saturating_add(a, b) == IF a + b > UsizeMax THEN UsizeMax ELSE a + b
saturating_sub(a, b) == IF a < b THEN 0 ELSE a - b

(***************************** text entry **********************************)
\* the contents of the query box: empty after construction and after reset
EMPTY_STRING == ""
Texts == {EMPTY_STRING, "a"}

(***************************** Picker **************************************)
new == [state |-> None, relative_state |-> None, inverted |-> FALSE,
        input |-> EMPTY_STRING]

selected(p) == p.state
relative_selected(p) == p.relative_state

\* select that stores the index in both cursors
select_both(p, index) ==
    [p EXCEPT !.state = index, !.relative_state = index]

select(p, index) == [p EXCEPT !.state = index]
relative_select(p, index) == [p EXCEPT !.relative_state = index]

\* offset with a wrapping subtraction in place of the saturating one
offset_wrapping(p) ==
    Wrap(unwrap_or(selected(p), 0) - unwrap_or(relative_selected(p), 0))

\* offset with the operands of the subtraction exchanged
offset_swapped(p) ==
    saturating_sub(unwrap_or(relative_selected(p), 0), unwrap_or(selected(p), 0))

offset(p) ==
    saturating_sub(unwrap_or(selected(p), 0), unwrap_or(relative_selected(p), 0))

\* inverted that sets the flag instead of flipping it
inverted_set(p) == [p EXCEPT !.inverted = TRUE]

inverted(p) == [p EXCEPT !.inverted = ~p.inverted]

\* reset_selection that leaves the relative index alone
reset_selection_absolute_only(p) == select(p, Some(0))

reset_selection(p) == relative_select(select(p, Some(0)), Some(0))

reset_input(p) == [p EXCEPT !.input = EMPTY_STRING]

\* the outcome of a call: the picker it leaves and whether it returned
Return(p) == [p |-> p, ok |-> TRUE]
Panic(p) == [p |-> p, ok |-> FALSE]

\* _select_next without the reduction modulo total_items
_select_next_unbounded(p, total_items, height) ==
    LET sel == unwrap_or(selected(p), 0)
        relative_sel == unwrap_or(relative_selected(p), 0)
        p1 == select(p, Some(saturating_add(sel, 1)))
        inc == relative_sel + 1
        p2 == relative_select(p1, Some(Min(Wrap(inc), height)))
    IN  IF total_items = 0 THEN Panic(p)
        ELSE IF overflow_checks /\ Overflows(inc) THEN Panic(p1)
        ELSE IF unwrap(selected(p2)) = 0
             THEN Return(relative_select(p2, Some(0)))
             ELSE Return(p2)

\* _select_next without the reset of the relative index on wrap-around
_select_next_no_repin(p, total_items, height) ==
    LET sel == unwrap_or(selected(p), 0)
        relative_sel == unwrap_or(relative_selected(p), 0)
        p1 == select(p, Some(saturating_add(sel, 1) % total_items))
        inc == relative_sel + 1
        p2 == relative_select(p1, Some(Min(Wrap(inc), height)))
    IN  IF total_items = 0 THEN Panic(p)
        ELSE IF overflow_checks /\ Overflows(inc) THEN Panic(p1)
        ELSE Return(p2)

_select_next(p, total_items, height) ==
    LET sel == unwrap_or(selected(p), 0)
        relative_sel == unwrap_or(relative_selected(p), 0)
        p1 == select(p, Some(saturating_add(sel, 1) % total_items))
        inc == relative_sel + 1
        p2 == relative_select(p1, Some(Min(Wrap(inc), height)))
    IN  IF total_items = 0 THEN Panic(p)
        ELSE IF overflow_checks /\ Overflows(inc) THEN Panic(p1)
        ELSE IF unwrap(selected(p2)) = 0
             THEN Return(relative_select(p2, Some(0)))
             ELSE Return(p2)

\* _select_prev without the pin of the relative index to height on wrap-around
_select_prev_unpinned(p, total_items, height) ==
    LET sel == unwrap_or(selected(p), 0)
        relative_sel == unwrap_or(relative_selected(p), 0)
        dec == total_items - 1
        sum == sel + Wrap(dec)
        p1 == select(p, Some(Wrap(sum) % total_items))
        p2 == relative_select(p1, Some(saturating_sub(relative_sel, 1)))
    IN  IF overflow_checks /\ Overflows(dec) THEN Panic(p)
        ELSE IF overflow_checks /\ Overflows(sum) THEN Panic(p)
        ELSE IF total_items = 0 THEN Panic(p)
        ELSE Return(p2)

\* _select_prev stepping back with a saturating subtraction: no wrap to the end
_select_prev_no_wrap(p, total_items, height) ==
    LET sel == unwrap_or(selected(p), 0)
        relative_sel == unwrap_or(relative_selected(p), 0)
        p1 == select(p, Some(saturating_sub(sel, 1) % total_items))
        p2 == relative_select(p1, Some(saturating_sub(relative_sel, 1)))
    IN  IF total_items = 0 THEN Panic(p)
        ELSE IF unwrap(selected(p2)) = total_items - 1
             THEN Return(relative_select(p2, Some(height)))
             ELSE Return(p2)

_select_prev(p, total_items, height) ==
    LET sel == unwrap_or(selected(p), 0)
        relative_sel == unwrap_or(relative_selected(p), 0)
        dec == total_items - 1
        sum == sel + Wrap(dec)
        p1 == select(p, Some(Wrap(sum) % total_items))
        p2 == relative_select(p1, Some(saturating_sub(relative_sel, 1)))
    IN  IF overflow_checks /\ Overflows(dec) THEN Panic(p)
        ELSE IF overflow_checks /\ Overflows(sum) THEN Panic(p)
        ELSE IF total_items = 0 THEN Panic(p)
        ELSE IF unwrap(selected(p2)) = total_items - 1
             THEN Return(relative_select(p2, Some(height)))
             ELSE Return(p2)

\* select_next that does not look at the inversion flag
select_next_undispatched(p, total_items, height) ==
    _select_next(p, total_items, height)

select_next(p, total_items, height) ==
    IF p.inverted THEN _select_prev(p, total_items, height)
                  ELSE _select_next(p, total_items, height)

select_prev(p, total_items, height) ==
    IF p.inverted THEN _select_next(p, total_items, height)
                  ELSE _select_prev(p, total_items, height)

(***************************** derive(ToCliChannel) ***********************)
Range(seq) == {seq[i] : i \in 1 .. Len(seq)}

\* variant identifiers, and the strings strum's Display gives them under
\* serialize_all = "kebab_case"
IdentPool == <<"Files", "GitRepos", "RemoteControl", "Env", "Text">>
Idents == {IdentPool[i] : i \in 1 .. Min(MaxVariants, Len(IdentPool))}
to_string(ident) ==
    CASE ident = "Files" -> "files"
      [] ident = "GitRepos" -> "git-repos"
      [] ident = "RemoteControl" -> "remote-control"
      [] ident = "Env" -> "env"
      [] ident = "Text" -> "text"

EXCLUDE_FROM_CLI == "exclude_from_cli"
AttrSets == {{}, {EXCLUDE_FROM_CLI}}
\* syn::Fields of a variant: one unnamed field, two unnamed fields, named
FieldShapes == {"unnamed_1", "unnamed_2", "named"}
Variants == [ident : Idents, attrs : AttrSets, fields : FieldShapes]

\* the enums a compilable crate can hand to the derive: no identifier twice
EnumsOfLen(n) ==
    {vs \in [1 .. n -> Variants] :
        \A i, j \in 1 .. n : i # j => vs[i].ident # vs[j].ident}
DeriveInputs ==
    {[data |-> "struct", variants |-> <<>>]}
        \cup {[data |-> "enum", variants |-> vs] :
                vs \in UNION {EnumsOfLen(n) : n \in 0 .. MaxVariants}}

has_attribute(attrs, attribute) == \E attr \in attrs : attr = attribute

Included(variant) == ~has_attribute(variant.attrs, EXCLUDE_FROM_CLI)

\* the expansion of the derive, or the panic of the macro
NotExpanded == [status |-> "none", cli_enum_variants |-> <<>>, arms |-> <<>>]
MacroPanic == [status |-> "panicked", cli_enum_variants |-> <<>>, arms |-> <<>>]

\* the match arm generated for one variant
Arm(variant) == [from |-> variant.ident, to |-> variant.ident]

\* impl_cli_channel that does not filter the variants of the CLI enum
impl_cli_channel_unfiltered(input) ==
    IF input.data # "enum" THEN MacroPanic
    ELSE IF input.variants = <<>> THEN MacroPanic
    ELSE LET kept == SelectSeq(input.variants, Included)
         IN  IF \E i \in 1 .. Len(kept) : kept[i].fields # "unnamed_1"
             THEN MacroPanic
             ELSE [status |-> "expanded",
                   cli_enum_variants |->
                       [i \in 1 .. Len(input.variants) |-> input.variants[i].ident],
                   arms |-> [i \in 1 .. Len(kept) |-> Arm(kept[i])]]

impl_cli_channel(input) ==
    IF input.data # "enum" THEN MacroPanic
    ELSE IF input.variants = <<>> THEN MacroPanic
    ELSE LET kept == SelectSeq(input.variants, Included)
         IN  IF \E i \in 1 .. Len(kept) : kept[i].fields # "unnamed_1"
             THEN MacroPanic
             ELSE [status |-> "expanded",
                   cli_enum_variants |-> [i \in 1 .. Len(kept) |-> kept[i].ident],
                   arms |-> [i \in 1 .. Len(kept) |-> Arm(kept[i])]]

\* CliTvChannel::to_channel: the TelevisionChannel variant of the arm that
\* matches
to_channel(g, cli_variant) ==
    LET i == CHOOSE k \in 1 .. Len(g.arms) : g.arms[k].from = cli_variant
    IN  g.arms[i].to

\* CliTvChannel::all_channels
all_channels(g) ==
    [i \in 1 .. Len(g.cli_enum_variants) |-> to_string(g.cli_enum_variants[i])]

NotObserved == [op |-> "none", arg |-> "", result |-> <<>>]

(***************************** ui/help.rs **********************************)
\* television::Mode
Modes == {"Channel", "Guide", "SendToChannel"}
\* event::Key values, and the text format!("{key}") gives for them
Keys == {"Char(j)", "Ctrl(c)"}
fmt_key(key) ==
    CASE key = "Char(j)" -> "j"
      [] key = "Ctrl(c)" -> "ctrl-c"
\* action::Action values keys are bound to: two that both help tables list
\* in one row, one that only the channel table lists
ActionPool == {"SelectPrevEntry", "SelectNextEntry", "SendToChannel"}
\* HashMap<Key, Action>
KeyMaps == UNION {[d -> ActionPool] : d \in SUBSET Keys}
\* config.keybindings: HashMap<Mode, HashMap<Key, Action>>
KeyBindings == UNION {[m -> KeyMaps] : m \in SUBSET Modes}
\* the orders in which a HashMap may hand out its keys
IterationOrders ==
    {o \in [1 .. Cardinality(Keys) -> Keys] : Range(o) = Keys}

NoTelevision == [mode |-> "Channel", keybindings |-> <<>>]

\* Result<T>
Ok(value) == [ok |-> TRUE, value |-> value, error |-> ""]
Err(error) == [ok |-> FALSE, value |-> <<>>, error |-> error]

\* keymap_for_mode falling back to an empty keymap
keymap_for_mode_or_default(tv) ==
    IF tv.mode \in DOMAIN tv.keybindings
    THEN Ok(tv.keybindings[tv.mode])
    ELSE Ok(<<>>)

keymap_for_mode(tv) ==
    IF tv.mode \in DOMAIN tv.keybindings
    THEN Ok(tv.keybindings[tv.mode])
    ELSE Err("No keybindings found for the current Mode")

\* keys_for_action: the keys bound to action, in the keymap's iteration order
keys_for_action(keymap, action, order) ==
    LET Bound(key) == key \in DOMAIN keymap /\ keymap[key] = action
        keys == SelectSeq(order, Bound)
    IN  [i \in 1 .. Len(keys) |-> fmt_key(keys[i])]

\* the pieces of parts with sep between each two: slice::join, and the loop
\* that pushes " / " after every span but the last
Interleave(parts, sep) ==
    IF parts = <<>> THEN <<>>
    ELSE [i \in 1 .. 2 * Len(parts) - 1 |->
            IF i % 2 = 1 THEN parts[(i + 1) \div 2] ELSE sep]

NO_KEYBINDINGS == "No keybindings"

\* build_cells_for_key_groups: a cell is the sequence of its spans, a span
\* the sequence of the pieces its text is concatenated from
build_cells_for_key_groups(group_name, key_groups) ==
    IF key_groups = <<>> \/ \A i \in 1 .. Len(key_groups) : key_groups[i] = <<>>
    THEN << <<<<group_name>>>>, <<<<NO_KEYBINDINGS>>>> >>
    ELSE LET NonEmpty(keys) == keys # <<>>
             non_empty_groups == SelectSeq(key_groups, NonEmpty)
             key_group_spans ==
                 [i \in 1 .. Len(non_empty_groups) |->
                     Interleave(non_empty_groups[i], ", ")]
         IN  << <<<<group_name, ": ">>>>,
                Interleave(key_group_spans, <<" / ">>) >>

Table(rows) == [rows |-> rows, widths |-> <<"Fill(1)", "Fill(2)">>]

\* the glyph a group name starts with is written as its name in brackets
build_help_table_for_channel(tv, order) ==
    LET keymap_result == keymap_for_mode(tv)
        keymap == keymap_result.value
        Row(group_name, actions) ==
            build_cells_for_key_groups(group_name,
                [i \in 1 .. Len(actions) |->
                    keys_for_action(keymap, actions[i], order)])
    IN  IF ~keymap_result.ok THEN Err(keymap_result.error)
        ELSE Ok(Table(<<
                Row("[updown] Results navigation",
                    <<"SelectPrevEntry", "SelectNextEntry">>),
                Row("[updown] Preview navigation",
                    <<"ScrollPreviewHalfPageUp", "ScrollPreviewHalfPageDown">>),
                Row("[check] Select entry", <<"SelectEntry">>),
                Row("[send] Send results to", <<"SendToChannel">>),
                Row("[switch] Switch channels", <<"ToggleChannelSelection">>),
                Row("[power] Quit", <<"Quit">>) >>))

build_help_table_for_channel_selection(tv, order) ==
    LET keymap_result == keymap_for_mode(tv)
        keymap == keymap_result.value
        Row(group_name, actions) ==
            build_cells_for_key_groups(group_name,
                [i \in 1 .. Len(actions) |->
                    keys_for_action(keymap, actions[i], order)])
    IN  IF ~keymap_result.ok THEN Err(keymap_result.error)
        ELSE Ok(Table(<<
                Row("[updown] Results", <<"SelectPrevEntry", "SelectNextEntry">>),
                Row("Select entry", <<"SelectEntry">>),
                Row("Switch channels", <<"ToggleChannelSelection">>),
                Row("Quit", <<"Quit">>) >>))

build_help_table(tv, order) ==
    CASE tv.mode = "Channel" -> build_help_table_for_channel(tv, order)
      [] tv.mode = "Guide" -> build_help_table_for_channel_selection(tv, order)
      [] tv.mode = "SendToChannel" -> build_help_table_for_channel(tv, order)

\* no build_help_table call was made yet
NotBuilt == [built |-> FALSE, mode |-> "Channel", result |-> Err("")]

(***************************** sessions *************************************)
\* no navigation session is under way
NoSession == [total_items |-> 0, height |-> 0, from_reset |-> FALSE]

(***************************** the calls ***********************************)
\* `call` records the most recent call: its name, its arguments and the
\* picker it was made on.
Called(op, total_items, height, index) ==
    [op |-> op, total_items |-> total_items, height |-> height,
     index |-> index, before |-> picker]

ItemCounts == 0 .. Min(MaxItems, UsizeMax)
Heights == 0 .. Min(MaxHeight, UsizeMax)

Init ==
    /\ picker = new
    /\ panicked = FALSE
    /\ overflow_checks \in BOOLEAN
    /\ call = [op |-> "new", total_items |-> 0, height |-> 0,
               index |-> None, before |-> new]
    /\ ast = [data |-> "struct", variants |-> <<>>]
    /\ gen = NotExpanded
    /\ observed = NotObserved
    /\ session = NoSession
    /\ recent = <<>>
    /\ television = NoTelevision
    /\ help = NotBuilt

CallSelect ==
    \E index \in OptionUsize :
        /\ ~panicked
        /\ picker' = select(picker, index)
        /\ call' = Called("select", 0, 0, index)
        /\ UNCHANGED <<panicked, overflow_checks>>
        /\ UNCHANGED <<derive_vars, session_vars, help_vars>>

CallRelativeSelect ==
    \E index \in OptionUsize :
        /\ ~panicked
        /\ picker' = relative_select(picker, index)
        /\ call' = Called("relative_select", 0, 0, index)
        /\ UNCHANGED <<panicked, overflow_checks>>
        /\ UNCHANGED <<derive_vars, session_vars, help_vars>>

CallResetSelection ==
    /\ ~panicked
    /\ picker' = reset_selection(picker)
    /\ call' = Called("reset_selection", 0, 0, None)
    /\ UNCHANGED <<panicked, overflow_checks>>
    /\ UNCHANGED <<derive_vars, session_vars, help_vars>>

CallResetInput ==
    /\ ~panicked
    /\ picker' = reset_input(picker)
    /\ call' = Called("reset_input", 0, 0, None)
    /\ UNCHANGED <<panicked, overflow_checks>>
    /\ UNCHANGED <<derive_vars, session_vars, help_vars>>

CallInverted ==
    /\ ~panicked
    /\ picker' = inverted(picker)
    /\ call' = Called("inverted", 0, 0, None)
    /\ UNCHANGED <<panicked, overflow_checks>>
    /\ UNCHANGED <<derive_vars, session_vars, help_vars>>

CallSelectNext ==
    \E total_items \in ItemCounts, height \in Heights :
        LET r == select_next(picker, total_items, height)
        IN  /\ ~panicked
            /\ picker' = r.p
            /\ panicked' = ~r.ok
            /\ call' = Called("select_next", total_items, height, None)
            /\ UNCHANGED overflow_checks
            /\ UNCHANGED <<derive_vars, session_vars, help_vars>>

CallSelectPrev ==
    \E total_items \in ItemCounts, height \in Heights :
        LET r == select_prev(picker, total_items, height)
        IN  /\ ~panicked
            /\ picker' = r.p
            /\ panicked' = ~r.ok
            /\ call' = Called("select_prev", total_items, height, None)
            /\ UNCHANGED overflow_checks
            /\ UNCHANGED <<derive_vars, session_vars, help_vars>>

\* the owner of the picker edits the query box (input is pub(crate))
EditInput ==
    \E text \in Texts :
        /\ ~panicked
        /\ text # picker.input
        /\ picker' = [picker EXCEPT !.input = text]
        /\ call' = Called("input", 0, 0, None)
        /\ UNCHANGED <<panicked, overflow_checks>>
        /\ UNCHANGED <<derive_vars, session_vars, help_vars>>

Next ==
    \/ CallSelect
    \/ CallRelativeSelect
    \/ CallResetSelection
    \/ CallResetInput
    \/ CallInverted
    \/ CallSelectNext
    \/ CallSelectPrev
    \/ EditInput

Spec == Init /\ [][Next]_vars

(***************************** the derive and its uses *********************)
DeriveInit ==
    /\ ast \in DeriveInputs
    /\ gen = NotExpanded
    /\ observed = NotObserved
    /\ picker = new
    /\ panicked = FALSE
    /\ overflow_checks = FALSE
    /\ call = [op |-> "new", total_items |-> 0, height |-> 0,
               index |-> None, before |-> new]
    /\ session = NoSession
    /\ recent = <<>>
    /\ television = NoTelevision
    /\ help = NotBuilt

\* the compiler expands #[derive(ToCliChannel)] on the item
Expand ==
    /\ gen.status = "none"
    /\ gen' = impl_cli_channel(ast)
    /\ UNCHANGED <<ast, observed>>
    /\ UNCHANGED <<picker_vars, session_vars, help_vars>>

CallToChannel ==
    \E cli_variant \in Range(gen.cli_enum_variants) :
        /\ gen.status = "expanded"
        /\ observed' = [op |-> "to_channel", arg |-> cli_variant,
                        result |-> <<to_channel(gen, cli_variant)>>]
        /\ UNCHANGED <<ast, gen>>
        /\ UNCHANGED <<picker_vars, session_vars, help_vars>>

CallAllChannels ==
    /\ gen.status = "expanded"
    /\ observed' = [op |-> "all_channels", arg |-> "",
                    result |-> all_channels(gen)]
    /\ UNCHANGED <<ast, gen>>
    /\ UNCHANGED <<picker_vars, session_vars, help_vars>>

DeriveNext ==
    \/ Expand
    \/ CallToChannel
    \/ CallAllChannels

SpecDerive == DeriveInit /\ [][DeriveNext]_vars

(***************************** a navigation session *************************)
\* the latest calls kept in `recent`
HistoryLen == IF MaxItems < 3 THEN 3 ELSE MaxItems
Remember(entry) ==
    LET all == Append(recent, entry)
    IN  IF Len(all) > HistoryLen THEN Tail(all) ELSE all

\* the pickers a session on total_items items starts from: the picker
\* reset_selection() leaves, or one whose cursors the setters stored, the
\* absolute selection unset or inside the list
SessionStarts(total_items, from_reset) ==
    IF from_reset
    THEN {reset_selection([new EXCEPT !.inverted = inv]) : inv \in BOOLEAN}
    ELSE {[state |-> sel, relative_state |-> rel, inverted |-> inv,
           input |-> EMPTY_STRING] :
            sel \in {None} \cup {Some(i) : i \in 0 .. total_items - 1},
            rel \in OptionUsize, inv \in BOOLEAN}

SessionInit ==
    /\ session \in [total_items : ItemCounts \ {0}, height : Heights,
                    from_reset : BOOLEAN]
    /\ picker \in SessionStarts(session.total_items, session.from_reset)
    /\ panicked = FALSE
    /\ overflow_checks \in BOOLEAN
    /\ call = IF session.from_reset
              THEN [op |-> "reset_selection", total_items |-> 0, height |-> 0,
                    index |-> None, before |-> [picker EXCEPT !.state = None]]
              ELSE [op |-> "relative_select", total_items |-> 0, height |-> 0,
                    index |-> picker.relative_state,
                    before |-> [picker EXCEPT !.relative_state = None]]
    /\ recent = <<>>
    /\ ast = [data |-> "struct", variants |-> <<>>]
    /\ gen = NotExpanded
    /\ observed = NotObserved
    /\ television = NoTelevision
    /\ help = NotBuilt

SessionSelectNext ==
    LET r == select_next(picker, session.total_items, session.height)
    IN  /\ ~panicked
        /\ picker' = r.p
        /\ panicked' = ~r.ok
        /\ call' = Called("select_next", session.total_items, session.height,
                          None)
        /\ recent' = Remember([op |-> "select_next", before |-> picker,
                               after |-> r.p, ok |-> r.ok])
        /\ UNCHANGED <<overflow_checks, session>>
        /\ UNCHANGED <<derive_vars, help_vars>>

SessionSelectPrev ==
    LET r == select_prev(picker, session.total_items, session.height)
    IN  /\ ~panicked
        /\ picker' = r.p
        /\ panicked' = ~r.ok
        /\ call' = Called("select_prev", session.total_items, session.height,
                          None)
        /\ recent' = Remember([op |-> "select_prev", before |-> picker,
                               after |-> r.p, ok |-> r.ok])
        /\ UNCHANGED <<overflow_checks, session>>
        /\ UNCHANGED <<derive_vars, help_vars>>

SessionInverted ==
    /\ ~panicked
    /\ picker' = inverted(picker)
    /\ call' = Called("inverted", 0, 0, None)
    /\ recent' = Remember([op |-> "inverted", before |-> picker,
                           after |-> inverted(picker), ok |-> TRUE])
    /\ UNCHANGED <<panicked, overflow_checks, session>>
    /\ UNCHANGED <<derive_vars, help_vars>>

SessionNext ==
    \/ SessionSelectNext
    \/ SessionSelectPrev
    \/ SessionInverted

SpecSession == SessionInit /\ [][SessionNext]_vars

(***************************** the help table ******************************)
HelpInit ==
    /\ television \in [mode : Modes, keybindings : KeyBindings]
    /\ help = NotBuilt
    /\ picker = new
    /\ panicked = FALSE
    /\ overflow_checks = FALSE
    /\ call = [op |-> "new", total_items |-> 0, height |-> 0,
               index |-> None, before |-> new]
    /\ session = NoSession
    /\ recent = <<>>
    /\ ast = [data |-> "struct", variants |-> <<>>]
    /\ gen = NotExpanded
    /\ observed = NotObserved

\* the render loop asks for the help table of the current mode
BuildHelpTable ==
    \E order \in IterationOrders :
        /\ help' = [built |-> TRUE, mode |-> television.mode,
                    result |-> build_help_table(television, order)]
        /\ UNCHANGED television
        /\ UNCHANGED <<picker_vars, derive_vars, session_vars>>

\* the application moves to another mode
SwitchMode ==
    \E mode \in Modes \ {television.mode} :
        /\ television' = [television EXCEPT !.mode = mode]
        /\ UNCHANGED help
        /\ UNCHANGED <<picker_vars, derive_vars, session_vars>>

HelpNext ==
    \/ BuildHelpTable
    \/ SwitchMode

SpecHelp == HelpInit /\ [][HelpNext]_vars

(***************************** reading a call ******************************)
\* the last call was a navigation call
Navigated == call.op \in {"select_next", "select_prev"}
\* the last call ran the advance algorithm / the retreat algorithm
Advanced ==
    \/ call.op = "select_next" /\ ~call.before.inverted
    \/ call.op = "select_prev" /\ call.before.inverted
Retreated ==
    \/ call.op = "select_prev" /\ ~call.before.inverted
    \/ call.op = "select_next" /\ call.before.inverted
\* the last call returned to its caller
Returned == ~panicked
\* the cursors the last call started from, an unset cursor read as 0
BeforeSelected == unwrap_or(call.before.state, 0)
BeforeRelative == unwrap_or(call.before.relative_state, 0)

(***************************** C1 ******************************************)
\* C1: after every select_next(n, h) or select_prev(n, h) call with n > 0
\* that returns, from any prior cursors and either orientation, the absolute
\* selection is Some(i) with 0 <= i < n.
C1_SelectionInRange ==
    (Navigated /\ call.total_items > 0 /\ Returned)
        => /\ is_some(selected(picker))
           /\ unwrap(selected(picker)) \in 0 .. call.total_items - 1

\* a navigation call that started from a stale index >= n and returned
C1_Witness ==
    /\ Navigated /\ call.total_items > 0 /\ Returned
    /\ is_some(call.before.state)
    /\ unwrap(call.before.state) >= call.total_items
    /\ unwrap(selected(picker)) < call.total_items

(***************************** C2 ******************************************)
\* C2: after every select_next(n, h) or select_prev(n, h) call with n > 0
\* the relative window index is Some(r) with 0 <= r <= h, h being the height
\* passed to that call, also when h is smaller than in the previous call.
C2_RelativeInWindow ==
    (Navigated /\ call.total_items > 0 /\ Returned)
        => /\ is_some(relative_selected(picker))
           /\ unwrap(relative_selected(picker)) \in 0 .. call.height

(***************************** C3 ******************************************)
\* C3 as claimed: whenever both cursors are set, selected = offset + relative.
C3_OffsetExact ==
    (is_some(selected(picker)) /\ is_some(relative_selected(picker)))
        => unwrap(selected(picker))
             = offset(picker) + unwrap(relative_selected(picker))

\* C3 as amended: whenever both cursors are set, selected = offset + relative
\* if relative <= selected, and offset = 0 if relative > selected (the
\* subtraction saturates at zero).
C3_OffsetSaturating ==
    (is_some(selected(picker)) /\ is_some(relative_selected(picker)))
        => LET sel == unwrap(selected(picker))
               rel == unwrap(relative_selected(picker))
           IN  /\ rel <= sel => sel = offset(picker) + rel
               /\ rel > sel => offset(picker) = 0

\* select(Some(1)) and relative_select(Some(2)), as in test_picker_offset
C3_Witness ==
    /\ call.op = "relative_select"
    /\ selected(picker) = Some(1)
    /\ relative_selected(picker) = Some(2)
    /\ offset(picker) = 0

(***************************** C4 ******************************************)
\* C4: select_next and select_prev called with total_items = 0 return and
\* leave the picker as it was.
C4_ZeroItemsNoOp ==
    (Navigated /\ call.total_items = 0)
        => Returned /\ picker = call.before

(***************************** C5 ******************************************)
\* C5: on a non-inverted picker, after a select_next(n, h) or
\* select_prev(n, h) call with n > 0 that leaves the absolute selection at 0
\* the relative window index is 0.
C5_PinnedTop ==
    (/\ Navigated /\ call.total_items > 0 /\ Returned
     /\ ~call.before.inverted
     /\ selected(picker) = Some(0))
        => relative_selected(picker) = Some(0)

(***************************** C6 ******************************************)
\* C6 as claimed: on a non-inverted picker, after a select_next(n, h) or
\* select_prev(n, h) call with n > 0 that leaves the absolute selection at
\* n - 1 the relative window index is h.
C6_PinnedBottom ==
    (/\ Navigated /\ call.total_items > 0 /\ Returned
     /\ ~call.before.inverted
     /\ selected(picker) = Some(call.total_items - 1))
        => relative_selected(picker) = Some(call.height)

\* C6 as amended: on a non-inverted picker, after a select_prev(n, h) call
\* with n > 0 that leaves the absolute selection at n - 1 the relative window
\* index is h; after a select_next(n, h) call that does so it is at most h.
C6_PinnedBottomAfterPrev ==
    (/\ Navigated /\ call.total_items > 0 /\ Returned
     /\ ~call.before.inverted
     /\ selected(picker) = Some(call.total_items - 1))
        => /\ call.op = "select_prev"
                => relative_selected(picker) = Some(call.height)
           /\ call.op = "select_next"
                => /\ is_some(relative_selected(picker))
                   /\ unwrap(relative_selected(picker)) <= call.height

\* select_prev(3, 2) from (selected 0, relative 0) wrapped to the last item
C6_Witness ==
    /\ call.op = "select_prev" /\ ~call.before.inverted /\ Returned
    /\ call.total_items = 3 /\ call.height = 2
    /\ call.before.state = Some(0) /\ call.before.relative_state = Some(0)
    /\ selected(picker) = Some(2)
    /\ relative_selected(picker) = Some(2)

(***************************** C7 ******************************************)
\* C7: on a non-inverted picker whose absolute selection is n - 1 (n > 0), a
\* select_next(n, h) call that returns leaves absolute selection 0 and
\* relative window index 0, whatever the relative index was and for every h.
C7_WrapForward ==
    (/\ call.op = "select_next" /\ ~call.before.inverted
     /\ call.total_items > 0 /\ Returned
     /\ call.before.state = Some(call.total_items - 1))
        => /\ selected(picker) = Some(0)
           /\ relative_selected(picker) = Some(0)

\* a forward wrap on a list shorter than the viewport, from a relative index
\* that was not 0
C7_Witness ==
    /\ call.op = "select_next" /\ ~call.before.inverted /\ Returned
    /\ call.total_items > 1
    /\ call.total_items - 1 < call.height
    /\ call.before.state = Some(call.total_items - 1)
    /\ is_some(call.before.relative_state)
    /\ unwrap(call.before.relative_state) > 0
    /\ selected(picker) = Some(0)
    /\ relative_selected(picker) = Some(0)

(***************************** C8 ******************************************)
\* C8: on a non-inverted picker whose absolute selection is 0 or unset, with
\* n > 0, select_prev(n, h) returns and leaves absolute selection n - 1 and
\* relative window index h, whatever the relative index was.
C8_WrapBackward ==
    (/\ call.op = "select_prev" /\ ~call.before.inverted
     /\ call.total_items > 0
     /\ call.before.state \in {None, Some(0)})
        => /\ Returned
           /\ selected(picker) = Some(call.total_items - 1)
           /\ relative_selected(picker) = Some(call.height)

\* a backward wrap from selection 0 on a list of several items, from a
\* relative index other than the height
C8_Witness ==
    /\ call.op = "select_prev" /\ ~call.before.inverted /\ Returned
    /\ call.total_items > 1
    /\ call.before.state = Some(0)
    /\ call.before.relative_state # Some(call.height)
    /\ selected(picker) = Some(call.total_items - 1)
    /\ relative_selected(picker) = Some(call.height)

(***************************** C9 ******************************************)
\* the cursors and the completion a call leaves
Outcome(r) == <<r.p.state, r.p.relative_state, r.ok>>
\* the picker the last call was made on, with the inversion flag cleared
BeforeUninverted == [call.before EXCEPT !.inverted = FALSE]

\* C9: for every prior cursor pair and every (n, h) with n > 0, select_next
\* on an inverted picker leaves the cursors that select_prev leaves on a
\* non-inverted picker with the same prior cursors, and select_prev on an
\* inverted picker those that select_next leaves on a non-inverted one.
C9_InversionSymmetry ==
    (Navigated /\ call.total_items > 0 /\ call.before.inverted)
        => LET here == <<picker.state, picker.relative_state, Returned>>
           IN  /\ call.op = "select_next"
                    => here = Outcome(select_prev(BeforeUninverted,
                                        call.total_items, call.height))
               /\ call.op = "select_prev"
                    => here = Outcome(select_next(BeforeUninverted,
                                        call.total_items, call.height))

\* select_next on an inverted picker stepped back from selection 1 to 0
C9_Witness ==
    /\ call.op = "select_next" /\ call.before.inverted /\ Returned
    /\ call.total_items = 2 /\ call.height = 1
    /\ call.before.state = Some(1)
    /\ call.before.relative_state = Some(1)
    /\ selected(picker) = Some(0)
    /\ relative_selected(picker) = Some(0)

(***************************** C10 *****************************************)
\* C10: an advance (select_next when not inverted, select_prev when inverted)
\* with n > 0 from prior cursors (a, r), an unset cursor read as 0, leaves
\* absolute selection (a + 1) mod n and relative index 0 if that is 0,
\* otherwise min(r + 1, h).
C10_Advance ==
    (Advanced /\ call.total_items > 0 /\ Returned)
        => LET a == (BeforeSelected + 1) % call.total_items
           IN  /\ selected(picker) = Some(a)
               /\ relative_selected(picker)
                    = Some(IF a = 0 THEN 0
                           ELSE Min(BeforeRelative + 1, call.height))

(***************************** C11 *****************************************)
\* C11: a retreat (select_prev when not inverted, select_next when inverted)
\* with n > 0 from prior cursors (a, r), an unset cursor read as 0, leaves
\* absolute selection (a + n - 1) mod n and relative index h if that is
\* n - 1, otherwise r - 1 saturating at 0.
C11_Retreat ==
    (Retreated /\ call.total_items > 0 /\ Returned)
        => LET a == (BeforeSelected + call.total_items - 1) % call.total_items
           IN  /\ selected(picker) = Some(a)
               /\ relative_selected(picker)
                    = Some(IF a = call.total_items - 1 THEN call.height
                           ELSE IF BeforeRelative = 0 THEN 0
                           ELSE BeforeRelative - 1)

(***************************** C12 *****************************************)
\* C12 as claimed: offset() is 0 whenever either cursor is unset.
C12_OffsetUnsetZero ==
    (selected(picker) = None \/ relative_selected(picker) = None)
        => offset(picker) = 0

\* C12 as amended: offset() is 0 whenever the absolute selection is unset
\* (any relative index, so also on a default picker); when only the relative
\* index is unset, offset() is the absolute selection itself.
C12_OffsetUnset ==
    /\ selected(picker) = None => offset(picker) = 0
    /\ (relative_selected(picker) = None /\ is_some(selected(picker)))
            => offset(picker) = unwrap(selected(picker))

\* select(Some(2)) on a picker whose relative index is unset
C12_Witness ==
    /\ call.op = "select"
    /\ selected(picker) = Some(2)
    /\ relative_selected(picker) = None
    /\ offset(picker) = 2

(***************************** C13 *****************************************)
\* C13: after a navigation call with height = 0 and n > 0 the relative
\* window index is 0, for select_next and select_prev, inverted or not,
\* whatever the relative index was before.
C13_ZeroHeight ==
    (Navigated /\ call.total_items > 0 /\ call.height = 0 /\ Returned)
        => relative_selected(picker) = Some(0)

(***************************** C14 *****************************************)
\* C14: with total_items > 0, select_next and select_prev return, for every
\* cursor value the setters accept and every total_items and height.
C14_Total ==
    (Navigated /\ call.total_items > 0) => Returned

(***************************** C15 *****************************************)
\* C15: reset_selection() leaves absolute selection Some(0) and relative
\* index Some(0), hence offset() = 0, whatever the cursors and the inversion
\* flag were, and applying it again changes nothing.
C15_Reset ==
    call.op = "reset_selection"
        => /\ selected(picker) = Some(0)
           /\ relative_selected(picker) = Some(0)
           /\ offset(picker) = 0
           /\ reset_selection(picker) = picker

\* a reset of an inverted picker whose cursors were both set and not 0
C15_Witness ==
    /\ call.op = "reset_selection"
    /\ call.before.inverted
    /\ call.before.state = Some(2)
    /\ call.before.relative_state = Some(1)
    /\ selected(picker) = Some(0)
    /\ relative_selected(picker) = Some(0)

(***************************** C16 *****************************************)
\* C16: in every state reachable by the public operations,
\* offset() <= selected().unwrap_or(0).
C16_OffsetAtMostSelected ==
    offset(picker) <= unwrap_or(selected(picker), 0)

\* after navigation the window starts after item 0 and before the selection
C16_Witness ==
    /\ Navigated /\ Returned
    /\ is_some(selected(picker))
    /\ offset(picker) > 0
    /\ offset(picker) < unwrap(selected(picker))

(***************************** C17 *****************************************)
\* C17: inverted() flips the inversion flag and nothing else: the absolute
\* selection, the relative index and the text entry are as before, and a
\* second call restores the picker the first was made on.
C17_InvertedFlipsFlag ==
    call.op = "inverted"
        => /\ picker.inverted = ~call.before.inverted
           /\ selected(picker) = selected(call.before)
           /\ relative_selected(picker) = relative_selected(call.before)
           /\ picker.input = call.before.input
           /\ inverted(picker) = call.before

\* inverted() on an inverted picker with both cursors set and a query typed
C17_Witness ==
    /\ call.op = "inverted"
    /\ call.before.inverted
    /\ ~picker.inverted
    /\ selected(picker) = Some(1)
    /\ relative_selected(picker) = Some(1)
    /\ picker.input # EMPTY_STRING

(***************************** C18 *****************************************)
\* C18: select_next, select_prev, select, relative_select and
\* reset_selection leave the inversion flag and the text entry unchanged;
\* select leaves the relative index and relative_select the absolute
\* selection unchanged; reset_input leaves both cursors and the flag
\* unchanged.
C18_Frame ==
    /\ call.op \in {"select_next", "select_prev", "select", "relative_select",
                    "reset_selection"}
            => /\ picker.inverted = call.before.inverted
               /\ picker.input = call.before.input
    /\ call.op = "select"
            => /\ selected(picker) = call.index
               /\ relative_selected(picker) = relative_selected(call.before)
    /\ call.op = "relative_select"
            => /\ relative_selected(picker) = call.index
               /\ selected(picker) = selected(call.before)
    /\ call.op = "reset_input"
            => /\ selected(picker) = selected(call.before)
               /\ relative_selected(picker) = relative_selected(call.before)
               /\ picker.inverted = call.before.inverted

\* select(Some(2)) on an inverted picker with a query typed and the relative
\* index at 1
C18_Witness ==
    /\ call.op = "select"
    /\ call.index = Some(2)
    /\ call.before.state = Some(0)
    /\ relative_selected(picker) = Some(1)
    /\ picker.inverted
    /\ picker.input # EMPTY_STRING

(***************************** C19 *****************************************)
\* the position of the variant named ident in the enum the derive was given
SourcePosition(ident) ==
    CHOOSE i \in 1 .. Len(ast.variants) : ast.variants[i].ident = ident
\* the identifiers of the variants annotated #[exclude_from_cli]
ExcludedIdents ==
    {v.ident : v \in {x \in Range(ast.variants) : EXCLUDE_FROM_CLI \in x.attrs}}

\* C19: the generated CliTvChannel has exactly the variants of the source
\* enum that are not annotated #[exclude_from_cli], in source order;
\* to_channel maps each of them to the TelevisionChannel variant of the same
\* name; no excluded variant is the result of to_channel or listed by
\* all_channels.
C19_CliChannel ==
    gen.status = "expanded"
        => LET cli == gen.cli_enum_variants
           IN  /\ Range(cli)
                    = {v.ident : v \in Range(ast.variants)} \ ExcludedIdents
               /\ \A i, j \in 1 .. Len(cli) :
                    i < j => SourcePosition(cli[i]) < SourcePosition(cli[j])
               /\ \A c \in Range(cli) :
                    /\ to_channel(gen, c) = c
                    /\ to_channel(gen, c) \notin ExcludedIdents
               /\ observed.op = "to_channel"
                    => /\ observed.arg \in Range(cli)
                       /\ observed.result = <<observed.arg>>
               /\ observed.op = "all_channels"
                    => /\ Len(observed.result) = Len(cli)
                       /\ \A i \in 1 .. Len(cli) :
                            observed.result[i] = to_string(cli[i])
                       /\ \A e \in ExcludedIdents :
                            to_string(e) \notin Range(observed.result)

\* all_channels on the expansion of an enum of three variants whose second
\* variant is excluded (and has named fields)
C19_Witness ==
    /\ gen.status = "expanded"
    /\ Len(ast.variants) = 3
    /\ EXCLUDE_FROM_CLI \in ast.variants[2].attrs
    /\ ast.variants[2].fields = "named"
    /\ gen.cli_enum_variants = <<ast.variants[1].ident, ast.variants[3].ident>>
    /\ observed.op = "all_channels"
    /\ Len(observed.result) = 2

(***************************** C20 *****************************************)
\* the last navigation call wrapped around: n - 1 to 0 or 0 to n - 1
WrappedAround ==
    \/ /\ BeforeSelected = call.total_items - 1
       /\ selected(picker) = Some(0)
    \/ /\ BeforeSelected = 0
       /\ selected(picker) = Some(call.total_items - 1)

\* C20: a select_next or select_prev call with n > 0, from a selection < n
\* and a relative index <= h, that does not wrap around changes offset() by
\* at most 1.
C20_SlidesByOne ==
    (/\ Navigated /\ call.total_items > 0 /\ Returned
     /\ BeforeSelected < call.total_items
     /\ BeforeRelative <= call.height
     /\ ~WrappedAround)
        => LET d == offset(picker) - offset(call.before)
           IN  d \in {-1, 0, 1}

(***************************** reading a session ***************************)
\* the cursor pair of a picker, an unset cursor read as 0
Cursors(p) == <<unwrap_or(p.state, 0), unwrap_or(p.relative_state, 0)>>
\* the selection is inside the list and the relative index inside the viewport
InsideWindow(p) ==
    /\ Cursors(p)[1] < session.total_items
    /\ Cursors(p)[2] <= session.height
\* the k-th latest call of the session (1 is the last one)
Latest(k) == recent[Len(recent) + 1 - k]
\* the latest k calls of the session were ops, oldest first, and all returned
LatestWere(ops) ==
    /\ Len(recent) >= Len(ops)
    /\ \A k \in 1 .. Len(ops) :
        /\ Latest(k).op = ops[Len(ops) + 1 - k]
        /\ Latest(k).ok

(***************************** C21 *****************************************)
\* C21: a select_next(n, h) followed by the opposite step with the same
\* arguments (select_prev(n, h), or inverted() then select_next(n, h)), from
\* a state with selection < n and relative <= h, leaves the cursor pair the
\* first call started from.
C21_RoundTrip ==
    /\ (LatestWere(<<"select_next", "select_prev">>)
        /\ InsideWindow(Latest(2).before))
            => Cursors(picker) = Cursors(Latest(2).before)
    /\ (LatestWere(<<"select_next", "inverted", "select_next">>)
        /\ InsideWindow(Latest(3).before))
            => Cursors(picker) = Cursors(Latest(3).before)

(***************************** C22 *****************************************)
\* the session started from reset_selection() and every call so far returned
FromReset == session.from_reset /\ Returned

\* C22: from reset_selection(), after any sequence of select_next and
\* select_prev calls with fixed n > 0 and h (inverted or not), the relative
\* index is at most the selection and offset() + relative = selected, also on
\* lists with fewer items than viewport rows.
C22_HighlightShowsSelection ==
    FromReset
        => /\ Cursors(picker)[2] <= Cursors(picker)[1]
           /\ offset(picker) + Cursors(picker)[2] = Cursors(picker)[1]

(***************************** C23 *****************************************)
\* C23: from reset_selection(), after any sequence of select_next and
\* select_prev calls with fixed n > 0 and h, offset() <= max(0, n - 1 - h).
C23_WindowInsideList ==
    FromReset
        => offset(picker)
             <= (IF session.total_items - 1 - session.height > 0
                 THEN session.total_items - 1 - session.height ELSE 0)

(***************************** C24 *****************************************)
\* the latest n calls of the session were all op and returned, the first of
\* them made on a picker whose selection was unset or inside the list
Repeated(op) ==
    /\ Len(recent) >= session.total_items
    /\ \A k \in 1 .. session.total_items : Latest(k).op = op /\ Latest(k).ok
    /\ Cursors(Latest(session.total_items).before)[1] < session.total_items
\* the selections those n calls left
Visited ==
    {Cursors(Latest(k).after)[1] : k \in 1 .. session.total_items}

\* C24: n consecutive select_next calls with fixed n > 0, from a selection
\* < n or unset, select every index of 0 .. n - 1 exactly once and end on the
\* selection they started from; the same for n consecutive select_prev calls.
C24_FullCycle ==
    \A op \in {"select_next", "select_prev"} :
        Repeated(op)
            => /\ Visited = 0 .. session.total_items - 1
               /\ Cursors(picker)[1]
                    = Cursors(Latest(session.total_items).before)[1]

(***************************** C25 *****************************************)
\* the rows of the two help tables: the name of each row and the actions
\* whose keys it lists
ChannelRows ==
    << [name |-> "[updown] Results navigation",
        actions |-> {"SelectPrevEntry", "SelectNextEntry"}],
       [name |-> "[updown] Preview navigation",
        actions |-> {"ScrollPreviewHalfPageUp", "ScrollPreviewHalfPageDown"}],
       [name |-> "[check] Select entry", actions |-> {"SelectEntry"}],
       [name |-> "[send] Send results to", actions |-> {"SendToChannel"}],
       [name |-> "[switch] Switch channels",
        actions |-> {"ToggleChannelSelection"}],
       [name |-> "[power] Quit", actions |-> {"Quit"}] >>
ChannelSelectionRows ==
    << [name |-> "[updown] Results",
        actions |-> {"SelectPrevEntry", "SelectNextEntry"}],
       [name |-> "Select entry", actions |-> {"SelectEntry"}],
       [name |-> "Switch channels", actions |-> {"ToggleChannelSelection"}],
       [name |-> "Quit", actions |-> {"Quit"}] >>
\* the rows build_help_table is to give in a mode
RowsOf(mode) == IF mode = "Guide" THEN ChannelSelectionRows ELSE ChannelRows
\* some key of keymap is bound to one of actions
SomeKeyBound(keymap, actions) ==
    \E key \in DOMAIN keymap : keymap[key] \in actions

\* C25: build_help_table returns an error, and no table, exactly when the
\* configuration has no keybindings entry for the current mode; otherwise it
\* returns the channel table in the modes Channel and SendToChannel and the
\* channel-selection table in the mode Guide, and a row none of whose
\* actions has a key reads "No keybindings".
C25_HelpTable ==
    help.built
        => LET has_entry == help.mode \in DOMAIN television.keybindings
               rows == help.result.value.rows
               expected == RowsOf(help.mode)
           IN  /\ help.result.ok <=> has_entry
               /\ ~help.result.ok
                    => /\ help.result.value = <<>>
                       /\ help.result.error # ""
               /\ help.result.ok
                    => /\ Len(rows) = Len(expected)
                       /\ \A i \in 1 .. Len(rows) :
                            /\ rows[i][1][1][1] = expected[i].name
                            /\ (rows[i] = << <<<<expected[i].name>>>>,
                                             <<<<NO_KEYBINDINGS>>>> >>)
                                <=> ~SomeKeyBound(
                                        television.keybindings[help.mode],
                                        expected[i].actions)

\* the table of the mode Guide, built from a keymap whose only key is bound
\* to an action that table does not list, while the mode Channel has no entry
C25_Witness ==
    /\ help.built
    /\ help.mode = "Guide"
    /\ "Channel" \notin DOMAIN television.keybindings
    /\ "Guide" \in DOMAIN television.keybindings
    /\ DOMAIN television.keybindings["Guide"] = {"Char(j)"}
    /\ television.keybindings["Guide"]["Char(j)"] = "SendToChannel"
    /\ help.result.ok
    /\ \A i \in 1 .. Len(ChannelSelectionRows) :
            help.result.value.rows[i][2] = <<<<NO_KEYBINDINGS>>>>

====
